---- MODULE Spec2Model ----
(***************************************************************************)
(* PyGit: the content-addressed object store (pygit/utils/hash.py), the    *)
(* Git object model (pygit/core/objects.py) and repository bootstrap       *)
(* (pygit/core/repository.py), over an explicit model of the filesystem.   *)
(*                                                                         *)
(* Representation.                                                         *)
(*   - A filesystem name, a type tag and a digest are atomic strings.      *)
(*   - File contents (Python bytes) and texts that the code parses         *)
(*     (Python str) are sequences of tokens; the tokens NUL, SP, LF,       *)
(*     SLASH and HASH are the characters the code splits on.  Join glues   *)
(*     the tokens of a text back into one atomic string.                   *)
(*   - A Python value handed to hash_object carries its type ("bytes" or   *)
(*     "str"), because bytes + str raises TypeError.                       *)
(*   - The filesystem fs maps a path (a sequence of names, relative to the *)
(*     repository root) to a node: a directory or a regular file.  The     *)
(*     metadata directory .pygit lives in the same filesystem.             *)
(***************************************************************************)
EXTENDS Integers, Sequences, FiniteSets, TLC

VARIABLES fs, last

vars == <<fs, last>>

----------------------------------------------------------------------------
(* Bounds of the model *)

\* most object files the store may hold (guards of the writing actions)
MaxObjects == 2

----------------------------------------------------------------------------
(* Tokens and texts *)

NUL == "\\0"
SP == " "
LF == "\n"
SLASH == "/"
HASH == "#"

Bytes(v) == [t |-> "bytes", v |-> v]
Str(v) == [t |-> "str", v |-> v]

RECURSIVE Join(_)
Join(s) == IF s = <<>> THEN "" ELSE Head(s) \o Join(Tail(s))

\* index of the first occurrence of token c in s, 0 when there is none
IndexOf(s, c) ==
    IF \E i \in 1..Len(s) : s[i] = c
    THEN CHOOSE i \in 1..Len(s) : s[i] = c /\ \A j \in 1..(i - 1) : s[j] # c
    ELSE 0

\* bytes.partition(sep): <<before, sep, after>>, or <<s, "", "">> without sep
partition(s, sep) ==
    LET i == IndexOf(s, sep)
    IN  IF i = 0 THEN <<s, <<>>, <<>>>>
        ELSE <<SubSeq(s, 1, i - 1), <<sep>>, SubSeq(s, i + 1, Len(s))>>

\* str.split(sep): the list of pieces between the separators
RECURSIVE split(_, _)
split(s, sep) ==
    LET i == IndexOf(s, sep)
    IN  IF i = 0 THEN <<s>>
        ELSE <<SubSeq(s, 1, i - 1)>> \o split(SubSeq(s, i + 1, Len(s)), sep)

\* str.split(" ", 2): at most two splits, the rest stays in the last piece
split2(s) ==
    LET i == IndexOf(s, SP)
    IN  IF i = 0 THEN <<s>>
        ELSE LET r == SubSeq(s, i + 1, Len(s))
                 j == IndexOf(r, SP)
             IN  IF j = 0 THEN <<SubSeq(s, 1, i - 1), r>>
                 ELSE <<SubSeq(s, 1, i - 1), SubSeq(r, 1, j - 1),
                        SubSeq(r, j + 1, Len(r))>>

\* str.splitlines(): split on line breaks, no empty last line
splitlines(s) ==
    LET parts == split(s, LF)
    IN  IF parts[Len(parts)] = <<>> THEN SubSeq(parts, 1, Len(parts) - 1)
        ELSE parts

\* str.strip(): drop leading and trailing whitespace
RECURSIVE strip(_)
strip(s) ==
    IF s = <<>> THEN s
    ELSE IF Head(s) \in {SP, LF} THEN strip(Tail(s))
    ELSE IF s[Len(s)] \in {SP, LF} THEN strip(SubSeq(s, 1, Len(s) - 1))
    ELSE s

----------------------------------------------------------------------------
(* Filesystem *)

Dir == [kind |-> "dir", data |-> <<>>]
File(data) == [kind |-> "file", data |-> data]

exists(f, p) == p \in DOMAIN f
isfile(f, p) == p \in DOMAIN f /\ f[p].kind = "file"
isdir(f, p) == p \in DOMAIN f /\ f[p].kind = "dir"

dirname(p) == SubSeq(p, 1, Len(p) - 1)
basename(p) == p[Len(p)]

Children(f, d) == {p \in DOMAIN f : Len(p) = Len(d) + 1 /\ dirname(p) = d}

IsPrefix(d, p) == Len(d) <= Len(p) /\ SubSeq(p, 1, Len(d)) = d

\* every proper, non-root prefix of p and p itself
Ancestors(p) == {SubSeq(p, 1, n) : n \in 1..Len(p)}

\* os.makedirs(p, exist_ok=True) / Path.mkdir(parents=True, exist_ok=True)
makedirs(f, p) ==
    [q \in DOMAIN f \cup Ancestors(p) |-> IF q \in DOMAIN f THEN f[q] ELSE Dir]

\* open(p, "wb").write(data)
write_file(f, p, data) ==
    [q \in DOMAIN f \cup {p} |-> IF q = p THEN File(data) ELSE f[q]]

\* os.remove(p) / os.rmdir(p)
remove(f, p) == [q \in DOMAIN f \ {p} |-> f[q]]

git_dir == <<".pygit">>

----------------------------------------------------------------------------
(* pygit/utils/hash.py *)

\* sha1(data).hexdigest(): a digest determined by the bytes and different for
\* different bytes (collisions are not modelled)
get_hash(data) == "sha1(" \o Join(data) \o ")"

\* hash_id[:2] and hash_id[2:], the fan-out directory and the file name
Head2(hash_id) == hash_id \o "[:2]"
Tail2(hash_id) == hash_id \o "[2:]"

obj_path_of(hash_id) == git_dir \o <<"objects", Head2(hash_id), Tail2(hash_id)>>

NoHash == ""

\* hash_object writing the bare payload, without the type tag and the NUL
hash_object_unframed(f, data, type_) ==
    IF data.t # "bytes"
    THEN [status |-> "TypeError", fs |-> f, hash_id |-> NoHash]
    ELSE LET obj == <<type_, NUL>> \o data.v
             hash_id == get_hash(obj)
             obj_path == obj_path_of(hash_id)
             f1 == makedirs(f, dirname(obj_path))
             f2 == IF ~exists(f1, obj_path)
                   THEN write_file(f1, obj_path, data.v)
                   ELSE f1
         IN  [status |-> "ok", fs |-> f2, hash_id |-> hash_id]

\* hash_object(git_dir, data, type_): [status, fs, hash_id]
hash_object(f, data, type_) ==
    IF data.t # "bytes"
    THEN \* type_.encode() + b"\x00" + data with data a str
         [status |-> "TypeError", fs |-> f, hash_id |-> NoHash]
    ELSE LET obj == <<type_, NUL>> \o data.v
             hash_id == get_hash(obj)
             obj_path == obj_path_of(hash_id)
             f1 == makedirs(f, dirname(obj_path))
             f2 == IF ~exists(f1, obj_path) THEN write_file(f1, obj_path, obj)
                   ELSE f1
         IN  [status |-> "ok", fs |-> f2, hash_id |-> hash_id]

----------------------------------------------------------------------------
(* pygit/core/objects.py: GitObject *)

ValidTypes == {"blob", "tree", "commit"}

\* GitObject.get_object(hash_id): [status, data]
get_object(f, hash_id) ==
    LET obj_path == obj_path_of(hash_id)
    IN  IF ~exists(f, obj_path)
        THEN [status |-> "FileNotFoundError", data |-> <<>>]
        ELSE LET obj == f[obj_path].data
                 parts == partition(obj, NUL)
                 type_ == Join(parts[1])
                 data == parts[3]
             IN  IF type_ \notin ValidTypes
                 THEN [status |-> "ValueError", data |-> <<>>]
                 ELSE [status |-> "ok", data |-> data]

----------------------------------------------------------------------------
(* pygit/core/objects.py: is_ignored *)

\* the names of the model's universe that end in ".log"
LogNames == {"b.log"}

\* fnmatch of one path component against one pattern component
fnmatch(name, pat) ==
    CASE pat = "*" -> TRUE
      [] pat = "*.log" -> name \in LogNames
      [] OTHER -> name = pat

\* Path(path).match(pattern) for a relative one-component pattern: the
\* pattern is matched against the last component of the path
PathMatch(path, pattern) == fnmatch(basename(path), pattern)

\* the patterns of an ignore file: stripped lines that are not empty and do
\* not start with "#"
patterns_of(data) ==
    LET lines == splitlines(data)
    IN  {Join(strip(lines[i])) : i \in {j \in 1..Len(lines) :
              strip(lines[j]) # <<>> /\ lines[j][1] # HASH}}

is_ignored(f, path) ==
    IF basename(path) = ".pygit" THEN TRUE
    ELSE LET gitignore_path == dirname(path) \o <<".gitignore">>
         IN  /\ exists(f, gitignore_path)
             /\ \E pattern \in patterns_of(f[gitignore_path].data) :
                    pattern # "" /\ PathMatch(path, pattern)

----------------------------------------------------------------------------
(* pygit/core/objects.py: Tree construction *)

\* the text Tree.store joins from the entries: "".join(f"{type_} {hash_id} {name}")
RECURSIVE tree_text(_)
tree_text(entries) ==
    IF entries = <<>> THEN <<>>
    ELSE <<entries[1][1], SP, entries[1][2], SP, entries[1][3]>>
             \o tree_text(Tail(entries))

\* Tree.store(): [status, fs, hash_id, entries, payload]
store(f, entries) ==
    LET tree == tree_text(entries)
        h == hash_object(f, Str(tree), "tree")
    IN  [status |-> h.status, fs |-> h.fs, hash_id |-> h.hash_id,
         entries |-> entries, payload |-> tree]

\* the state of one Tree.write_tree call: the exception raised ("ok" when
\* none), the filesystem, the entries added so far, the files read and stored
\* as blobs, and the last Tree.store call a nested directory made
NoStore == [called |-> FALSE, entries |-> <<>>, payload |-> <<>>]
Stored(st) == [called |-> TRUE, entries |-> st.entries, payload |-> st.payload]

\* Tree.write_tree(directory): the set of outcomes over the orders in which
\* os.scandir may yield the children of each directory (the children are
\* those present when the scan starts); an exception ends the scan
RECURSIVE write_tree(_, _), scan(_, _, _), scan_entry(_, _, _)
write_tree(f, directory) ==
    scan([status |-> "ok", fs |-> f, entries |-> <<>>, read |-> {},
          ser |-> NoStore],
         directory, Children(f, directory))

scan(acc, directory, todo) ==
    IF todo = {} \/ acc.status # "ok" THEN {acc}
    ELSE UNION {UNION {scan(a, directory, todo \ {full_path}) :
                           a \in scan_entry(acc, directory, full_path)} :
                    full_path \in todo}

scan_entry(acc, directory, full_path) ==
    IF isfile(acc.fs, full_path)
    THEN IF is_ignored(acc.fs, full_path) THEN {acc}
         ELSE LET h == hash_object(acc.fs, Bytes(acc.fs[full_path].data), "blob")
              IN  {[acc EXCEPT !.status = h.status, !.fs = h.fs,
                        !.entries = IF h.status = "ok"
                                    THEN Append(@, <<"blob", h.hash_id,
                                                     basename(full_path)>>)
                                    ELSE @,
                        !.read = @ \cup {full_path}]}
    ELSE IF isdir(acc.fs, full_path)
    THEN {IF sub.status # "ok"
          THEN [acc EXCEPT !.status = sub.status, !.fs = sub.fs,
                           !.read = @ \cup sub.read, !.ser = sub.ser]
          ELSE LET st == store(sub.fs, sub.entries)
               IN  [acc EXCEPT !.status = st.status, !.fs = st.fs,
                        !.entries = IF st.status = "ok"
                                    THEN Append(@, <<"tree", st.hash_id,
                                                     basename(full_path)>>)
                                    ELSE @,
                        !.read = @ \cup sub.read, !.ser = Stored(st)] :
             sub \in write_tree(acc.fs, full_path)}
    ELSE {acc}

\* Tree.build of the spec: write_tree(directory) followed by store()
build(f, directory) ==
    {IF w.status # "ok"
     THEN [status |-> w.status, fs |-> w.fs, hash_id |-> NoHash,
           entries |-> w.entries, read |-> w.read, ser |-> w.ser]
     ELSE LET st == store(w.fs, w.entries)
          IN  [status |-> st.status, fs |-> st.fs, hash_id |-> st.hash_id,
               entries |-> w.entries, read |-> w.read, ser |-> Stored(st)] :
        w \in write_tree(f, directory)}

----------------------------------------------------------------------------
(* pygit/core/objects.py: reading trees *)

\* a dict as a sequence of <<key, value>> pairs in insertion order
dict_keys(d) == {d[i][1] : i \in 1..Len(d)}
dict_get(d, k) == d[CHOOSE i \in 1..Len(d) : d[i][1] = k][2]
dict_set(d, k, v) ==
    IF k \in dict_keys(d)
    THEN [i \in 1..Len(d) |-> IF d[i][1] = k THEN <<k, v>> ELSE d[i]]
    ELSE Append(d, <<k, v>>)

RECURSIVE dict_update(_, _)
dict_update(d, e) ==
    IF e = <<>> THEN d ELSE dict_update(dict_set(d, e[1][1], e[1][2]), Tail(e))

\* Tree.get_tree(hash_id, base_path) over Tree._iter_tree(hash_id):
\* [status, result], result the dict path -> digest; a path is a text
RECURSIVE get_tree(_, _, _), get_tree_loop(_, _, _, _)
get_tree(f, hash_id, base_path) ==
    IF hash_id = "" THEN [status |-> "ok", result |-> <<>>]
    ELSE LET o == get_object(f, hash_id)
         IN  IF o.status # "ok" THEN [status |-> o.status, result |-> <<>>]
             ELSE get_tree_loop(f, splitlines(o.data), base_path, <<>>)

get_tree_loop(f, lines, base_path, result) ==
    IF lines = <<>> THEN [status |-> "ok", result |-> result]
    ELSE LET parts == split2(lines[1])
         IN  IF Len(parts) # 3
             THEN \* type_, hash_id, name = entry.split(" ", 2)
                  [status |-> "ValueError", result |-> <<>>]
             ELSE LET type_ == Join(parts[1])
                      hash_id == Join(parts[2])
                      name == parts[3]
                      path == base_path \o name
                  IN  IF \E i \in 1..Len(name) : name[i] = SLASH
                      THEN [status |-> "AssertionError", result |-> <<>>]
                      ELSE IF Join(name) \in {"..", "."}
                      THEN [status |-> "AssertionError", result |-> <<>>]
                      ELSE IF type_ = "blob"
                      THEN get_tree_loop(f, Tail(lines), base_path,
                                         dict_set(result, path, hash_id))
                      ELSE IF type_ = "tree"
                      THEN LET sub == get_tree(f, hash_id, path \o <<SLASH>>)
                           IN  IF sub.status # "ok" THEN sub
                               ELSE get_tree_loop(f, Tail(lines), base_path,
                                        dict_update(result, sub.result))
                      ELSE [status |-> "ValueError", result |-> <<>>]

\* a path text as a filesystem path relative to the working root
RECURSIVE JoinEach(_)
JoinEach(ss) == IF ss = <<>> THEN <<>> ELSE <<Join(ss[1])>> \o JoinEach(Tail(ss))
ToFsPath(path) == JoinEach(split(path, SLASH))

----------------------------------------------------------------------------
(* pygit/core/objects.py: materialization *)

AllDirs(f) == {<<>>} \cup {p \in DOMAIN f : f[p].kind = "dir"}

\* os.walk(topdown=False): every directory after the directories below it
RECURSIVE bottom_up(_)
bottom_up(ds) ==
    IF ds = {} THEN <<>>
    ELSE LET d == CHOOSE x \in ds : \A y \in ds : Len(y) <= Len(x)
         IN  <<d>> \o bottom_up(ds \ {d})

\* the loop over `files` of one directory, in every order os.walk may list
\* them: the ignore file is read from the filesystem as it is at that moment
RECURSIVE remove_files(_, _)
remove_files(f, files) ==
    IF files = {} THEN {f}
    ELSE UNION {remove_files(IF is_ignored(f, path) \/ ~isfile(f, path) THEN f
                             ELSE remove(f, path),
                             files \ {path}) : path \in files}

\* the loop over `directories` of one directory; os.rmdir fails on a
\* directory that is not empty and the failure is swallowed
RECURSIVE remove_dirs(_, _)
remove_dirs(f, directories) ==
    IF directories = {} THEN f
    ELSE LET dir_path == CHOOSE d \in directories : TRUE
             g == IF is_ignored(f, dir_path) \/ ~isdir(f, dir_path) THEN f
                  ELSE IF Children(f, dir_path) = {} THEN remove(f, dir_path)
                  ELSE f
         IN  remove_dirs(g, directories \ {dir_path})

\* one (root, directories, files) step of the walk; listing is the
\* filesystem the walk scanned
walk_step(f, root, listing) ==
    LET files == {p \in Children(listing, root) : listing[p].kind = "file"}
        directories == {p \in Children(listing, root) : listing[p].kind = "dir"}
    IN  {remove_dirs(g, directories) : g \in remove_files(f, files)}

RECURSIVE empty_walk(_, _, _)
empty_walk(fset, roots, listing) ==
    IF roots = <<>> THEN fset
    ELSE empty_walk(UNION {walk_step(f, roots[1], listing) : f \in fset},
                    Tail(roots), listing)

\* Tree._empty_directory(): the set of filesystems it may leave
empty_directory(f) == empty_walk({f}, bottom_up(AllDirs(f)), f)

LastIndexOf(s, c) ==
    IF \E i \in 1..Len(s) : s[i] = c
    THEN CHOOSE i \in 1..Len(s) : s[i] = c /\ \A j \in (i + 1)..Len(s) : s[j] # c
    ELSE 0

\* os.path.dirname of a path text
text_dirname(path) ==
    LET i == LastIndexOf(path, SLASH)
    IN  IF i = 0 THEN <<>> ELSE SubSeq(path, 1, i - 1)

\* the loop of Tree.read_tree over the items of the flattened tree:
\* [status, fs]. The code opens the paths relative to the process's current
\* directory, taken here to be the repository root. open(path, "wb")
\* truncates the file before get_object is called.
RECURSIVE write_back(_, _)
write_back(f, items) ==
    IF items = <<>> THEN [status |-> "ok", fs |-> f]
    ELSE LET path == items[1][1]
             hash_id == items[1][2]
             dir == text_dirname(path)
             p == ToFsPath(path)
         IN  IF dir = <<>>
             THEN \* os.makedirs("") raises
                  [status |-> "FileNotFoundError", fs |-> f]
             ELSE IF \E q \in Ancestors(ToFsPath(dir)) : isfile(f, q)
             THEN [status |-> "FileExistsError", fs |-> f]
             ELSE LET f1 == makedirs(f, ToFsPath(dir))
                  IN  IF isdir(f1, p)
                      THEN [status |-> "IsADirectoryError", fs |-> f1]
                      ELSE LET f2 == write_file(f1, p, <<>>)
                               o == get_object(f2, hash_id)
                           IN  IF o.status # "ok"
                               THEN [status |-> o.status, fs |-> f2]
                               ELSE write_back(write_file(f2, p, o.data),
                                               Tail(items))

\* Tree.read_tree(hash_id): the set of outcomes [status, fs]
read_tree(f, hash_id) ==
    {LET t == get_tree(f1, hash_id, <<>>)
     IN  IF t.status # "ok" THEN [status |-> t.status, fs |-> f1]
         ELSE write_back(f1, t.result) : f1 \in empty_directory(f)}

----------------------------------------------------------------------------
(* pygit/core/objects.py: Commit *)

None == [some |-> FALSE, v |-> ""]
Some(v) == [some |-> TRUE, v |-> v]
truthy(x) == x.some /\ x.v # ""

head_path == git_dir \o <<"HEAD">>

\* Commit.get_HEAD(): the stripped content of the HEAD file, None without it
get_HEAD(f) ==
    IF isfile(f, head_path) THEN Some(Join(strip(f[head_path].data))) ELSE None

\* Commit.set_HEAD(oid): [status, fs]
set_HEAD(f, oid) ==
    IF ~isdir(f, git_dir) THEN [status |-> "FileNotFoundError", fs |-> f]
    ELSE [status |-> "ok", fs |-> write_file(f, head_path, <<oid>>)]

INDENT == "        "
AuthorEmail == "unknown@example.com"
TimeZone == "+0000"

\* the f-string of Commit.commit
commit_text(message, tree_hash_id, timestamp) ==
    <<LF, INDENT, "author: PyGit <", AuthorEmail, ">", LF,
      INDENT, "timestamp: ", ToString(timestamp), LF,
      INDENT, "timezone: ", TimeZone, LF,
      INDENT, "message: ", message, LF,
      INDENT, "tree: ", tree_hash_id, LF, INDENT>>

\* Commit.commit(): [status, fs, oid, payload]
commit(f, message, tree_hash_id, timestamp) ==
    LET HEAD == get_HEAD(f)
        commit_data == commit_text(message, tree_hash_id, timestamp)
                           \o (IF truthy(HEAD) THEN <<"parent: ", HEAD.v, LF>>
                               ELSE <<>>)
        h == hash_object(f, Str(commit_data), "commit")
    IN  IF h.status # "ok"
        THEN [status |-> h.status, fs |-> h.fs, oid |-> NoHash,
              payload |-> commit_data]
        ELSE LET s == set_HEAD(h.fs, h.hash_id)
             IN  [status |-> s.status, fs |-> s.fs, oid |-> h.hash_id,
                  payload |-> commit_data]

----------------------------------------------------------------------------
(* pygit/core/repository.py *)

Skeleton ==
    {git_dir \o <<"hooks">>, git_dir \o <<"info">>, git_dir \o <<"objects">>,
     git_dir \o <<"logs">>, git_dir \o <<"refs", "heads">>,
     git_dir \o <<"refs", "tags">>, git_dir \o <<"refs", "remotes">>}

RECURSIVE makedirs_all(_, _)
makedirs_all(f, ps) ==
    IF ps = {} THEN f
    ELSE LET p == CHOOSE x \in ps : TRUE
         IN  makedirs_all(makedirs(f, p), ps \ {p})

\* Repository.init(): [status, fs]
repo_init(f) ==
    IF exists(f, git_dir) THEN [status |-> "FileExistsError", fs |-> f]
    ELSE [status |-> "ok", fs |-> makedirs_all(f, Skeleton)]

----------------------------------------------------------------------------
(* Inputs *)

Hello == <<"hello">>
Ignore == <<HASH, SP, "logs", LF, "*.log", LF>>

\* the working directories a repository may start with, each a set of
\* <<path, bytes>>: empty, one file, two files, ignored files, nested files
A_txt == <<<<"a.txt">>, Hello>>
B_log == <<<<"b.log">>, <<"x">>>>
Gitignore == <<<<".gitignore">>, Ignore>>
Sub_c_txt == <<<<"sub", "c.txt">>, Hello>>
Sub_d_txt == <<<<"sub", "d.txt">>, <<"x">>>>

WorkingDirectories ==
    {{}, {A_txt}, {A_txt, B_log}, {Gitignore, B_log},
     {A_txt, Gitignore, B_log}, {A_txt, Sub_c_txt, Sub_d_txt}}

mkfs(S) ==
    LET paths == {e[1] : e \in S}
        dirs == UNION {Ancestors(dirname(q)) : q \in paths}
    IN  [p \in paths \cup dirs |->
            IF p \in paths THEN File((CHOOSE e \in S : e[1] = p)[2]) ELSE Dir]

frame(type_, data) == <<type_, NUL>> \o data
HelloId == get_hash(frame("blob", Hello))

\* the <<type_, data>> pairs put hands to hash_object
PutInputs ==
    {<<"blob", Hello>>, <<"tree", <<"blob", SP, HelloId, SP, "a.txt">>>>,
     <<"commit", <<"a", NUL, "b">>>>, <<"note", Hello>>}

ObjectFiles(f) ==
    {p \in DOMAIN f : /\ Len(p) = 4
                      /\ IsPrefix(git_dir \o <<"objects">>, p)
                      /\ f[p].kind = "file"}

\* the digests of the stored objects
StoredIds(f) == {get_hash(f[p].data) : p \in ObjectFiles(f)}

\* the digests the reading operations are asked for: those stored and one
\* that may be missing
HashIds(f) == StoredIds(f) \cup {HelloId}

CommitId == get_hash(frame("commit", <<"a", NUL, "b">>))

\* the values datetime.now().timestamp() may take
Clock == {0, 1}

WorkDirs(f) == {d \in AllDirs(f) : ~IsPrefix(git_dir, d)}

\* what the last operation was given and what it returned or raised;
\* changed tells whether it changed the filesystem
Last(op, arg, status, value, changed) ==
    [op |-> op, arg |-> arg, status |-> status, value |-> value,
     changed |-> changed, entries |-> <<>>, read |-> {}, ser |-> NoStore]

----------------------------------------------------------------------------
(* The state machine *)

Init ==
    /\ \E S \in WorkingDirectories : fs = mkfs(S)
    /\ last = Last("start", "", "ok", "", FALSE)

\* Repository.init()
RepoInit ==
    LET r == repo_init(fs)
    IN  /\ fs' = r.fs
        /\ last' = Last("init", "", r.status, "", r.fs # fs)

\* put: hash_object(git_dir, data, type_) with data bytes
Put ==
    \E i \in PutInputs :
        LET r == hash_object(fs, Bytes(i[2]), i[1])
        IN  /\ Cardinality(ObjectFiles(r.fs)) <= MaxObjects
            /\ fs' = r.fs
            /\ last' = Last("put", i, r.status, r.hash_id, r.fs # fs)

\* get: GitObject.get_object(hash_id)
Get ==
    \E hash_id \in HashIds(fs) :
        LET r == get_object(fs, hash_id)
        IN  /\ fs' = fs
            /\ last' = Last("get", hash_id, r.status, r.data, FALSE)

\* Blob.cat_file(hash_id): the data goes to standard output
CatFile ==
    \E hash_id \in StoredIds(fs) :
        LET r == get_object(fs, hash_id)
        IN  /\ fs' = fs
            /\ last' = Last("cat_file", hash_id, r.status, r.data, FALSE)

\* Tree.build: write_tree(directory) and store()
Build ==
    \E directory \in WorkDirs(fs) : \E r \in build(fs, directory) :
        /\ Cardinality(ObjectFiles(r.fs)) <= MaxObjects
        /\ fs' = r.fs
        /\ last' = [Last("build", directory, r.status, r.hash_id, r.fs # fs)
                        EXCEPT !.entries = r.entries, !.read = r.read,
                               !.ser = r.ser]

\* flatten: Tree.get_tree(hash_id)
GetTree ==
    \E hash_id \in HashIds(fs) :
        LET r == get_tree(fs, hash_id, <<>>)
        IN  /\ fs' = fs
            /\ last' = Last("get_tree", hash_id, r.status, r.result, FALSE)

\* materialize: Tree.read_tree(hash_id)
ReadTree ==
    \E hash_id \in HashIds(fs) \cup {""} : \E r \in read_tree(fs, hash_id) :
        /\ fs' = r.fs
        /\ last' = Last("read_tree", hash_id, r.status, "", r.fs # fs)

\* Commit(message, tree_hash_id).commit()
CommitCreate ==
    \E message \in {"init"}, tree_hash_id \in {HelloId}, timestamp \in Clock :
        LET r == commit(fs, message, tree_hash_id, timestamp)
        IN  /\ Cardinality(ObjectFiles(r.fs)) <= MaxObjects
            /\ fs' = r.fs
            /\ last' = [Last("commit", <<message, tree_hash_id>>, r.status,
                             r.oid, r.fs # fs)
                            EXCEPT !.ser = [called |-> FALSE, entries |-> <<>>,
                                            payload |-> r.payload]]

\* Commit.set_HEAD(oid)
SetHEAD ==
    \E oid \in {CommitId} :
        LET r == set_HEAD(fs, oid)
        IN  /\ fs' = r.fs
            /\ last' = Last("set_HEAD", oid, r.status, "", r.fs # fs)

\* Commit.get_HEAD()
GetHEAD ==
    /\ fs' = fs
    /\ last' = Last("get_HEAD", "", "ok", get_HEAD(fs), FALSE)

Next ==
    \/ RepoInit
    \/ Put
    \/ Get
    \/ CatFile
    \/ Build
    \/ GetTree
    \/ ReadTree
    \/ CommitCreate
    \/ SetHEAD
    \/ GetHEAD

Spec == Init /\ [][Next]_vars

----------------------------------------------------------------------------
(* The object store alone: hash.py and GitObject.get_object *)

NextStore ==
    \/ RepoInit
    \/ Put
    \/ Get
    \/ CatFile

StoreSpec == Init /\ [][NextStore]_vars

\* bytes an object file may hold after damage from outside the program:
\* a bare tag without the NUL separator, bytes without any tag, an unknown
\* tag, an empty tag
DamagedBytes ==
    {<<"tree">>, <<"hello">>, <<"note", NUL, "x">>, <<NUL, "x">>,
     <<"blob", NUL, "x">>}

\* an initialized repository whose object HelloId holds damaged bytes
InitDamaged ==
    /\ \E S \in WorkingDirectories : \E b \in DamagedBytes :
          fs = write_file(makedirs(repo_init(mkfs(S)).fs,
                                   dirname(obj_path_of(HelloId))),
                          obj_path_of(HelloId), b)
    /\ last = Last("start", "", "ok", "", FALSE)

DamagedSpec == InitDamaged /\ [][NextStore]_vars

----------------------------------------------------------------------------
(* Properties *)

\* the regular files of the working directory at or below `directory`
WorkFiles(f, directory) ==
    {p \in DOMAIN f : /\ f[p].kind = "file"
                      /\ IsPrefix(directory, p)
                      /\ ~IsPrefix(git_dir, p)}

\* a path as a text, "/" between its components
RECURSIVE PathText(_)
PathText(p) ==
    IF Len(p) <= 1 THEN p ELSE <<p[1], SLASH>> \o PathText(Tail(p))

RelPath(p, directory) == SubSeq(p, Len(directory) + 1, Len(p))

\* the entries a tree payload parses to, line by line
ParsedEntries(payload) ==
    LET lines == splitlines(payload)
    IN  [i \in 1..Len(lines) |->
            LET parts == split2(lines[i])
            IN  IF Len(parts) = 3
                THEN <<Join(parts[1]), Join(parts[2]), Join(parts[3])>>
                ELSE <<"", "", "">>]

\* the digest on the "parent: " line of a commit payload, None without one
ParentOf(payload) ==
    IF \E i \in 1..(Len(payload) - 1) : payload[i] = "parent: "
    THEN Some(payload[(CHOOSE i \in 1..(Len(payload) - 1) :
                           payload[i] = "parent: ") + 1])
    ELSE None

\* C1: round trip. Once Tree.build has run on the working root of a
\* directory with no ignored file, it has returned a tree digest, and
\* Tree.read_tree on that digest completes without error and leaves every
\* file of the directory at its path with the bytes it had.
C1_RoundTrip ==
    (/\ last.op = "build"
     /\ last.arg = <<>>
     /\ \A p \in WorkFiles(fs, <<>>) : ~is_ignored(fs, p))
    => /\ last.status = "ok"
       /\ \A r \in read_tree(fs, last.value) :
             /\ r.status = "ok"
             /\ \A p \in WorkFiles(fs, <<>>) :
                   isfile(r.fs, p) /\ r.fs[p].data = fs[p].data

\* C2: put is idempotent and content-addressed. A put of a tag and a
\* payload returns the digest of `tag NUL payload`, whatever was put before;
\* after it the object file at objects/<d[0:2]>/<d[2:]> holds exactly
\* `tag NUL payload`, no other object file holds those bytes, and a put of
\* an object that is already stored leaves the filesystem as it was.
C2_IdempotentPut ==
    [][last'.op = "put" =>
          LET obj == frame(last'.arg[1], last'.arg[2])
              d == get_hash(obj)
              path == obj_path_of(d)
          IN  /\ last'.status = "ok"
              /\ last'.value = d
              /\ isfile(fs', path)
              /\ fs'[path].data = obj
              /\ exists(fs, path) => fs' = fs
              /\ \A p \in ObjectFiles(fs') : fs'[p].data = obj => p = path]_vars

\* C2 witness: a put that found its object stored already, in a store that
\* another put has filled as well
C2_Witness ==
    /\ last.op = "put"
    /\ ~last.changed
    /\ Cardinality(ObjectFiles(fs)) = 2

\* C3: commit chaining. Every Commit.commit stores a commit and returns its
\* digest, HEAD holds that digest afterwards, and the payload's parent line
\* names the digest HEAD held before the call (no parent line when HEAD was
\* absent).
C3_CommitChaining ==
    [][last'.op = "commit" =>
          /\ last'.status = "ok"
          /\ get_HEAD(fs') = Some(last'.value)
          /\ get_object(fs', last'.value).status = "ok"
          /\ ParentOf(last'.ser.payload) = get_HEAD(fs)]_vars

\* C4: flatten completeness. Once Tree.build has run on a directory, it has
\* returned a tree digest on which Tree.get_tree yields exactly one key per
\* non-ignored regular file below the directory, the file's relative path,
\* mapped to the digest of the blob of the file's bytes.
C4_FlattenComplete ==
    last.op = "build" =>
       /\ last.status = "ok"
       /\ LET t == get_tree(fs, last.value, <<>>)
              expected == {p \in WorkFiles(fs, last.arg) : ~is_ignored(fs, p)}
              key(p) == PathText(RelPath(p, last.arg))
          IN  /\ t.status = "ok"
              /\ dict_keys(t.result) = {key(p) : p \in expected}
              /\ \A p \in expected :
                    dict_get(t.result, key(p))
                        = get_hash(frame("blob", fs[p].data))

\* C5: ignore enforcement. A regular file matched by the ignore file of its
\* own directory is no entry of the tree Tree.build makes for that
\* directory, and it is still there with the same bytes after
\* Tree.read_tree has run its cleanup pass.
C5_IgnoreEnforced ==
    [][/\ last'.op = "build" =>
             \A i \in 1..Len(last'.entries) :
                 last'.entries[i][1] = "blob"
                     => ~is_ignored(fs, last'.arg \o <<last'.entries[i][3]>>)
       /\ last'.op = "read_tree" =>
             \A p \in WorkFiles(fs, <<>>) :
                 is_ignored(fs, p)
                     => isfile(fs', p) /\ fs'[p].data = fs[p].data]_vars

\* C6: get. get_object raises FileNotFoundError when there is no file at the
\* path of the digest, ValueError when the stored bytes have no NUL
\* separator or the tag before the NUL is not blob, tree or commit, and
\* returns the bytes after the first NUL otherwise.
C6_GetErrors ==
    last.op = "get" =>
       LET path == obj_path_of(last.arg)
           obj == fs[path].data
           i == IndexOf(obj, NUL)
       IN  IF ~exists(fs, path) THEN last.status = "FileNotFoundError"
           ELSE IF i = 0 \/ Join(SubSeq(obj, 1, i - 1)) \notin ValidTypes
           THEN last.status = "ValueError"
           ELSE /\ last.status = "ok"
                /\ last.value = SubSeq(obj, i + 1, Len(obj))

\* C7: HEAD is changed by Commit.commit only: put, get, cat_file,
\* Tree.build, Tree.get_tree and Tree.read_tree leave HEAD as it was.
C7_OnlyCommitMovesHEAD ==
    [][last'.op \in {"put", "get", "cat_file", "build", "get_tree",
                     "read_tree"}
          => get_HEAD(fs') = get_HEAD(fs)]_vars

\* C8: Tree.build on the working root leaves the metadata directory out:
\* the tree has no entry named .pygit and no file below .pygit is read and
\* stored as a blob.
C8_MetadataExcluded ==
    (last.op = "build" /\ last.arg = <<>>) =>
       /\ \A i \in 1..Len(last.entries) : last.entries[i][3] # ".pygit"
       /\ \A p \in last.read : ~IsPrefix(git_dir, p)

\* C9: the payload Tree.store serializes parses back, line by line, to the
\* entries it was made from, in their order.
C9_PayloadRoundTrip ==
    (last.op = "build" /\ last.ser.called)
        => ParsedEntries(last.ser.payload) = last.ser.entries

\* C10: stored objects are permanent: no operation removes or rewrites an
\* object file.
C10_ObjectsPermanent ==
    [][\A p \in ObjectFiles(fs) :
           isfile(fs', p) /\ fs'[p].data = fs[p].data]_vars

====
